---- MODULE Spec2Model ----
(***************************************************************************)
(* Lazy vector-database factory (retrieval/vector/factory.py) and the lazy *)
(* module cache (utils/optimized_loading.py) of open-webui.                *)
(*                                                                         *)
(* get_vector_db_client() is modelled one step per place where another     *)
(* thread of the worker can run: the test of the global (line 64), the     *)
(* call of Vector.get_vector (line 65, right-hand side), the store into    *)
(* the global (line 65, left-hand side) and the re-read of the global for  *)
(* the return (line 66).  The code holds no lock.                          *)
(*                                                                         *)
(* A call of get_module, get_module_attr or clear_module_cache and an      *)
(* access through a LazyImport / LazyAttribute object is one step each.    *)
(***************************************************************************)
EXTENDS Integers, FiniteSets, Sequences, TLC

\* ---------------------------------------------------------------- bounds
\* Threads of one worker process that can be inside the factory at once.
NumThreads == 2
\* Calls of get_vector_db_client / the proxy begun in a run.
MaxOps == 3
\* Module-cache calls and changes of the environment made in a run.
MaxCacheOps == 3

Threads == 1..NumThreads

\* ------------------------------------------------- configuration values
\* The members of VectorType named by the case labels of get_vector.
VectorType ==
    {"disabled", "milvus", "qdrant", "pinecone", "opensearch", "pgvector",
     "elasticsearch", "chroma"}

\* The values VECTOR_DB is drawn from: every member of the enumeration and
\* one string outside it.
ConfiguredIdentifiers == VectorType \cup {"nonexistent"}

\* Python's None.
None == [class |-> "None", module |-> "builtins", id |-> 0]

\* ------------------------------------------------ module-cache universe
\* Module names and attribute names the callers of optimized_loading ask for.
Modules == {"heavy_module", "other_module"}
Symbols == {"heavy_function", "other_function"}

\* What a module attribute can be bound to; Absent: the module has no such
\* attribute; NoEntry: the lru_cache holds no entry under the key.
Absent == "absent"
NoEntry == "noentry"
AttrValues == {"None", "obj"}

VARIABLES
    VECTOR_DB,                        \* config.VECTOR_DB
    ENABLE_QDRANT_MULTITENANCY_MODE,  \* config.ENABLE_QDRANT_MULTITENANCY_MODE
    vector_db_client,                 \* the global _vector_db_client
    pc,                               \* pc[t]: where thread t is in its call
    op,                               \* op[t]: "get", "getattr" or "call"
    tmp,                              \* tmp[t]: value of get_vector(...) not yet stored
    imported,                         \* variant modules imported so far
    ctorCalls,                        \* constructor invocations so far
    selectCalls,                      \* Vector.get_vector invocations so far
    outcomes,                         \* how the finished calls ended
    importable,                       \* modules importlib.import_module finds
    attrs,                            \* attrs[m][s]: attribute s of module m
    module_cache,                     \* lru_cache of get_module
    attr_cache,                       \* lru_cache of get_module_attr
    lastCall,                         \* the last call of optimized_loading,
                                      \*   numbered, and how it ended
    loads,                            \* loads[m]: imports by get_module that
                                      \*   succeeded since the last cache clear
    attrLoads,                        \* the same for the body of get_module_attr
    imports,                          \* imports[m]: imports by get_module that
                                      \*   succeeded since the process started
    clears,                           \* clear_module_cache calls so far
    failures,                         \* keys <<module, attribute>> whose call of
                                      \*   get_module ("" for the attribute) or
                                      \*   get_module_attr has raised
    lazy_import,                      \* a LazyImport object
    lazy_attr,                        \* a LazyAttribute object
    lastAccess,                       \* the last access through one of the two,
                                      \*   numbered, and how it ended
    ops                               \* operations begun so far

backendVars ==
    <<VECTOR_DB, ENABLE_QDRANT_MULTITENANCY_MODE, vector_db_client, pc, op, tmp,
      imported, ctorCalls, selectCalls, outcomes>>

lazyVars == <<lazy_import, lazy_attr, lastAccess>>

cacheVars ==
    <<importable, attrs, module_cache, attr_cache, lastCall, loads, attrLoads,
      imports, clears, failures, lazyVars>>

vars == <<backendVars, cacheVars, ops>>

\* ------------------------------------------------------ Vector.get_vector
\* A constructor call of class `class` from module `module`: the import
\* statement runs first, then the constructor, which returns the n-th
\* instance of the process or raises.
Construct(module, class, n, ok) ==
    [exc |-> IF ok THEN "none" ELSE "ConstructionError",
     val |-> IF ok THEN [class |-> class, module |-> module, id |-> n] ELSE None,
     imports |-> {module},
     constructs |-> 1]

NoConstruct(exc) ==
    [exc |-> exc, val |-> None, imports |-> {}, constructs |-> 0]

\* get_vector with a default backend in place of the ValueError of line 55.
get_vector_FallbackChroma(vector_type, multitenancy, n, ok) ==
    CASE vector_type = "disabled" -> NoConstruct("none")
      [] vector_type = "milvus" -> Construct("dbs.milvus", "MilvusClient", n, ok)
      [] vector_type = "qdrant" ->
            IF multitenancy
            THEN Construct("dbs.qdrant_multitenancy", "QdrantClient", n, ok)
            ELSE Construct("dbs.qdrant", "QdrantClient", n, ok)
      [] vector_type = "pinecone" -> Construct("dbs.pinecone", "PineconeClient", n, ok)
      [] vector_type = "opensearch" ->
            Construct("dbs.opensearch", "OpenSearchClient", n, ok)
      [] vector_type = "pgvector" -> Construct("dbs.pgvector", "PgvectorClient", n, ok)
      [] vector_type = "elasticsearch" ->
            Construct("dbs.elasticsearch", "ElasticsearchClient", n, ok)
      [] vector_type = "chroma" -> Construct("dbs.chroma", "ChromaClient", n, ok)
      [] OTHER -> Construct("dbs.chroma", "ChromaClient", n, ok)

\* get_vector with both Qdrant modules imported ahead of the test of the flag.
get_vector_EagerQdrant(vector_type, multitenancy, n, ok) ==
    CASE vector_type = "disabled" -> NoConstruct("none")
      [] vector_type = "milvus" -> Construct("dbs.milvus", "MilvusClient", n, ok)
      [] vector_type = "qdrant" ->
            [Construct(IF multitenancy THEN "dbs.qdrant_multitenancy" ELSE "dbs.qdrant",
                       "QdrantClient", n, ok)
                EXCEPT !.imports = {"dbs.qdrant_multitenancy", "dbs.qdrant"}]
      [] vector_type = "pinecone" -> Construct("dbs.pinecone", "PineconeClient", n, ok)
      [] vector_type = "opensearch" ->
            Construct("dbs.opensearch", "OpenSearchClient", n, ok)
      [] vector_type = "pgvector" -> Construct("dbs.pgvector", "PgvectorClient", n, ok)
      [] vector_type = "elasticsearch" ->
            Construct("dbs.elasticsearch", "ElasticsearchClient", n, ok)
      [] vector_type = "chroma" -> Construct("dbs.chroma", "ChromaClient", n, ok)
      [] OTHER -> NoConstruct("ValueError")

\* get_vector with the body of the elasticsearch case pasted into the
\* opensearch case.
get_vector_PastedCase(vector_type, multitenancy, n, ok) ==
    CASE vector_type = "disabled" -> NoConstruct("none")
      [] vector_type = "milvus" -> Construct("dbs.milvus", "MilvusClient", n, ok)
      [] vector_type = "qdrant" ->
            IF multitenancy
            THEN Construct("dbs.qdrant_multitenancy", "QdrantClient", n, ok)
            ELSE Construct("dbs.qdrant", "QdrantClient", n, ok)
      [] vector_type = "pinecone" -> Construct("dbs.pinecone", "PineconeClient", n, ok)
      [] vector_type = "opensearch" ->
            Construct("dbs.elasticsearch", "ElasticsearchClient", n, ok)
      [] vector_type = "pgvector" -> Construct("dbs.pgvector", "PgvectorClient", n, ok)
      [] vector_type = "elasticsearch" ->
            Construct("dbs.elasticsearch", "ElasticsearchClient", n, ok)
      [] vector_type = "chroma" -> Construct("dbs.chroma", "ChromaClient", n, ok)
      [] OTHER -> NoConstruct("ValueError")

\* Vector.get_vector: the match statement, one case per line of the source.
get_vector(vector_type, multitenancy, n, ok) ==
    CASE vector_type = "disabled" -> NoConstruct("none")
      [] vector_type = "milvus" -> Construct("dbs.milvus", "MilvusClient", n, ok)
      [] vector_type = "qdrant" ->
            IF multitenancy
            THEN Construct("dbs.qdrant_multitenancy", "QdrantClient", n, ok)
            ELSE Construct("dbs.qdrant", "QdrantClient", n, ok)
      [] vector_type = "pinecone" -> Construct("dbs.pinecone", "PineconeClient", n, ok)
      [] vector_type = "opensearch" ->
            Construct("dbs.opensearch", "OpenSearchClient", n, ok)
      [] vector_type = "pgvector" -> Construct("dbs.pgvector", "PgvectorClient", n, ok)
      [] vector_type = "elasticsearch" ->
            Construct("dbs.elasticsearch", "ElasticsearchClient", n, ok)
      [] vector_type = "chroma" -> Construct("dbs.chroma", "ChromaClient", n, ok)
      [] OTHER -> NoConstruct("ValueError")

\* ------------------------------------------------------- module cache
\* What a call of get_module / get_module_attr does: the exception that
\* leaves it ("none" when it returns), the value returned, the two caches
\* afterwards and the loaders that ran ("import_module": the body of
\* get_module, "getattr": the body of get_module_attr).
CallResult(exc, val, mcache, acache, ran) ==
    [exc |-> exc, val |-> val, mcache |-> mcache, acache |-> acache, ran |-> ran]

\* get_module with the ImportError swallowed: the caller gets no module and
\* no exception.
get_module_Swallow(m, mcache, acache, imp) ==
    IF m \in mcache
    THEN CallResult("none", m, mcache, acache, {})
    ELSE IF m \in imp
         THEN CallResult("none", m, mcache \cup {m}, acache, {"import_module"})
         ELSE CallResult("none", NoEntry, mcache, acache, {"import_module"})

\* get_module under lru_cache: a hit returns the cached module without
\* running the body; a miss runs importlib.import_module and caches what it
\* returns; an ImportError is re-raised and nothing is cached.
get_module(m, mcache, acache, imp) ==
    IF m \in mcache
    THEN CallResult("none", m, mcache, acache, {})
    ELSE IF m \in imp
         THEN CallResult("none", m, mcache \cup {m}, acache, {"import_module"})
         ELSE CallResult("ImportError", NoEntry, mcache, acache, {"import_module"})

\* get_module_attr without its lru_cache decorator: the body runs on every
\* call.
get_module_attr_Undecorated(m, s, mcache, acache, imp, at) ==
    LET r == get_module(m, mcache, acache, imp)
    IN IF r.exc # "none"
       THEN CallResult(r.exc, NoEntry, r.mcache, acache, r.ran \cup {"getattr"})
       ELSE IF at[m][s] = Absent
            THEN CallResult("AttributeError", NoEntry, r.mcache, acache,
                            r.ran \cup {"getattr"})
            ELSE CallResult("none", at[m][s], r.mcache,
                            [acache EXCEPT ![m][s] = at[m][s]],
                            r.ran \cup {"getattr"})

\* get_module_attr with the miss remembered: the AttributeError is raised
\* once, the key is then cached as absent.
get_module_attr_CachesMiss(m, s, mcache, acache, imp, at) ==
    IF acache[m][s] # NoEntry
    THEN CallResult("none", acache[m][s], mcache, acache, {})
    ELSE LET r == get_module(m, mcache, acache, imp)
         IN IF r.exc # "none"
            THEN CallResult(r.exc, NoEntry, r.mcache, acache, r.ran \cup {"getattr"})
            ELSE IF at[m][s] = Absent
                 THEN CallResult("AttributeError", NoEntry, r.mcache,
                                 [acache EXCEPT ![m][s] = Absent],
                                 r.ran \cup {"getattr"})
                 ELSE CallResult("none", at[m][s], r.mcache,
                                 [acache EXCEPT ![m][s] = at[m][s]],
                                 r.ran \cup {"getattr"})

\* get_module_attr with importlib.import_module called in its own body, past
\* get_module and its cache.
get_module_attr_DirectImport(m, s, mcache, acache, imp, at) ==
    IF acache[m][s] # NoEntry
    THEN CallResult("none", acache[m][s], mcache, acache, {})
    ELSE IF m \notin imp
         THEN CallResult("ImportError", NoEntry, mcache, acache,
                         {"import_module", "getattr"})
         ELSE IF at[m][s] = Absent
              THEN CallResult("AttributeError", NoEntry, mcache, acache,
                              {"import_module", "getattr"})
              ELSE CallResult("none", at[m][s], mcache,
                              [acache EXCEPT ![m][s] = at[m][s]],
                              {"import_module", "getattr"})

\* get_module_attr under lru_cache: a hit returns the cached attribute; a
\* miss runs get_module(module_name) and getattr(module, attr_name); only
\* AttributeError is caught (and re-raised), an ImportError passes through.
get_module_attr(m, s, mcache, acache, imp, at) ==
    IF acache[m][s] # NoEntry
    THEN CallResult("none", acache[m][s], mcache, acache, {})
    ELSE LET r == get_module(m, mcache, acache, imp)
         IN IF r.exc # "none"
            THEN CallResult(r.exc, NoEntry, r.mcache, acache, r.ran \cup {"getattr"})
            ELSE IF at[m][s] = Absent
                 THEN CallResult("AttributeError", NoEntry, r.mcache, acache,
                                 r.ran \cup {"getattr"})
                 ELSE CallResult("none", at[m][s], r.mcache,
                                 [acache EXCEPT ![m][s] = at[m][s]],
                                 r.ran \cup {"getattr"})

EmptyAttrCache == [m \in Modules |-> [s \in Symbols |-> NoEntry]]

\* clear_module_cache with line 126 left out: the attribute cache survives.
clear_module_cache_ModulesOnly(mcache, acache) ==
    CallResult("none", NoEntry, {}, acache, {})

\* clear_module_cache: get_module.cache_clear(); get_module_attr.cache_clear()
clear_module_cache(mcache, acache) ==
    CallResult("none", NoEntry, {}, EmptyAttrCache, {})

\* ------------------------------------------- LazyImport, LazyAttribute
\* The object before its __init__ has run, and after: the key, the local
\* reference _module / _attr ("None": Python's None), the value the first
\* resolution that succeeded returned (NoEntry: none has yet) and whether a
\* resolution has raised.
NoProxy == [module_name |-> "", attr_name |-> "", ref |-> "None",
            first |-> NoEntry, failed |-> FALSE]

NewProxy(m, s) == [NoProxy EXCEPT !.module_name = m, !.attr_name = s]

NoCallResult(mcache, acache) == CallResult("none", NoEntry, mcache, acache, {})

\* What the first two lines of a proxy method do: whether get_module /
\* get_module_attr was called, what the call did, the local reference after.
Resolution(called, r, ref) == [called |-> called, r |-> r, ref |-> ref]

\* LazyImport with a failed import remembered in _module: later accesses
\* find _module set.
LazyImport_resolve_KeepsFailure(p, mcache, acache, imp) ==
    IF p.ref = "None"
    THEN LET r == get_module(p.module_name, mcache, acache, imp)
         IN Resolution(TRUE, r, IF r.exc = "none" THEN r.val ELSE "broken")
    ELSE Resolution(FALSE, NoCallResult(mcache, acache), p.ref)

\* lines 82-83 and 88-89:
\* if self._module is None: self._module = get_module(self._module_name)
LazyImport_resolve(p, mcache, acache, imp) ==
    IF p.ref = "None"
    THEN LET r == get_module(p.module_name, mcache, acache, imp)
         IN Resolution(TRUE, r, IF r.exc = "none" THEN r.val ELSE p.ref)
    ELSE Resolution(FALSE, NoCallResult(mcache, acache), p.ref)

\* lines 111-112 and 116-117:
\* if self._attr is None: self._attr = get_module_attr(module, attr)
LazyAttribute_resolve(p, mcache, acache, imp, at) ==
    IF p.ref = "None"
    THEN LET r == get_module_attr(p.module_name, p.attr_name, mcache, acache,
                                  imp, at)
         IN Resolution(TRUE, r, IF r.exc = "none" THEN r.val ELSE p.ref)
    ELSE Resolution(FALSE, NoCallResult(mcache, acache), p.ref)

\* The ways through a proxy: the call, and the read of a member by name.
AccessKinds == {"call"} \cup Symbols

\* lines 84 and 90: getattr(self._module, name) raises AttributeError for a
\* name the module does not have; self._module(...) raises TypeError, a
\* module is not callable.
ModuleForward(m, k, at) ==
    IF k = "call" THEN "TypeError"
    ELSE IF at[m][k] = Absent THEN "AttributeError" ELSE "none"

\* lines 113 and 118: self._attr(...) and getattr(self._attr, name); None is
\* not callable and has none of the names; what another object does with
\* the access is its own affair.
AttrForward(v, k) ==
    IF v # "None" THEN "none"
    ELSE IF k = "call" THEN "TypeError" ELSE "AttributeError"

NoAccess == [n |-> 0, proxy |-> "none", exc |-> "none", target |-> "None",
             called |-> FALSE]

\* ------------------------------------------------------------------ Init
NoCall == [n |-> 0, fn |-> "none", module |-> "", symbol |-> "", exc |-> "none",
           val |-> NoEntry, ran |-> {}]

\* The module with the client built at import time, as
\* VECTOR_DB_CLIENT = Vector.get_vector(VECTOR_DB) at module level would.
Init_Eager ==
    /\ VECTOR_DB \in ConfiguredIdentifiers
    /\ ENABLE_QDRANT_MULTITENANCY_MODE \in BOOLEAN
    /\ LET r == get_vector(VECTOR_DB, ENABLE_QDRANT_MULTITENANCY_MODE, 1, TRUE)
       IN /\ vector_db_client = r.val
          /\ imported = r.imports
          /\ ctorCalls = r.constructs
    /\ pc = [t \in Threads |-> "idle"]
    /\ op = [t \in Threads |-> "get"]
    /\ tmp = [t \in Threads |-> None]
    /\ selectCalls = 1
    /\ outcomes = {}
    /\ importable \in SUBSET Modules
    /\ attrs \in [Modules -> [Symbols -> {Absent} \cup AttrValues]]
    /\ \A m \in Modules \ importable : \A s \in Symbols : attrs[m][s] = Absent
    /\ module_cache = {}
    /\ attr_cache = EmptyAttrCache
    /\ lastCall = NoCall
    /\ loads = [m \in Modules |-> 0]
    /\ attrLoads = [m \in Modules |-> [s \in Symbols |-> 0]]
    /\ imports = [m \in Modules |-> 0]
    /\ clears = 0
    /\ failures = {}
    /\ lazy_import = NoProxy
    /\ lazy_attr = NoProxy
    /\ lastAccess = NoAccess
    /\ ops = 0

Init ==
    /\ VECTOR_DB \in ConfiguredIdentifiers
    /\ ENABLE_QDRANT_MULTITENANCY_MODE \in BOOLEAN
    /\ vector_db_client = None
    /\ pc = [t \in Threads |-> "idle"]
    /\ op = [t \in Threads |-> "get"]
    /\ tmp = [t \in Threads |-> None]
    /\ imported = {}
    /\ ctorCalls = 0
    /\ selectCalls = 0
    /\ outcomes = {}
    /\ importable \in SUBSET Modules
    /\ attrs \in [Modules -> [Symbols -> {Absent} \cup AttrValues]]
    /\ \A m \in Modules \ importable : \A s \in Symbols : attrs[m][s] = Absent
    /\ module_cache = {}
    /\ attr_cache = EmptyAttrCache
    /\ lastCall = NoCall
    /\ loads = [m \in Modules |-> 0]
    /\ attrLoads = [m \in Modules |-> [s \in Symbols |-> 0]]
    /\ imports = [m \in Modules |-> 0]
    /\ clears = 0
    /\ failures = {}
    /\ lazy_import = NoProxy
    /\ lazy_attr = NoProxy
    /\ lastAccess = NoAccess
    /\ ops = 0

config == <<VECTOR_DB, ENABLE_QDRANT_MULTITENANCY_MODE>>

\* --------------------------------------------------- get_vector_db_client
\* How a finished call ended: the entry point, the exception that left it
\* ("none" when it returned) and the client it returned or forwarded to.
Outcome(o, exc, val) == [op |-> o, exc |-> exc, val |-> val]

\* A caller enters get_vector_db_client directly ("get") or through
\* VECTOR_DB_CLIENT.__getattr__ ("getattr") or __call__ ("call").
Call(t) ==
    /\ pc[t] = "idle"
    /\ ops < MaxOps
    /\ \E o \in {"get", "getattr", "call"} : op' = [op EXCEPT ![t] = o]
    /\ pc' = [pc EXCEPT ![t] = "check"]
    /\ ops' = ops + 1
    /\ UNCHANGED <<config, vector_db_client, tmp, imported, ctorCalls,
                   selectCalls, outcomes, cacheVars>>

\* Check with the test of the global left out: every call constructs.
Check_NoTest(t) ==
    /\ pc[t] = "check"
    /\ pc' = [pc EXCEPT ![t] = "select"]
    /\ UNCHANGED <<config, vector_db_client, op, tmp, imported, ctorCalls,
                   selectCalls, outcomes, cacheVars, ops>>

\* line 64: if _vector_db_client is None
Check(t) ==
    /\ pc[t] = "check"
    /\ pc' = [pc EXCEPT ![t] =
                 IF vector_db_client = None THEN "select" ELSE "return"]
    /\ UNCHANGED <<config, vector_db_client, op, tmp, imported, ctorCalls,
                   selectCalls, outcomes, cacheVars, ops>>

\* line 65, right-hand side: Vector.get_vector(VECTOR_DB) returns a value.
SelectReturns(t) ==
    /\ pc[t] = "select"
    /\ LET r == get_vector(VECTOR_DB, ENABLE_QDRANT_MULTITENANCY_MODE,
                           ctorCalls + 1, TRUE)
       IN /\ r.exc = "none"
          /\ tmp' = [tmp EXCEPT ![t] = r.val]
          /\ imported' = imported \cup r.imports
          /\ ctorCalls' = ctorCalls + r.constructs
    /\ selectCalls' = selectCalls + 1
    /\ pc' = [pc EXCEPT ![t] = "store"]
    /\ UNCHANGED <<config, vector_db_client, op, outcomes, cacheVars, ops>>

\* SelectRaises with the failure kept in the global as a terminal state: the
\* exception still reaches the caller, later calls find the global set.
SelectRaises_CachesFailure(t) ==
    /\ pc[t] = "select"
    /\ \E ok \in BOOLEAN :
         LET r == get_vector(VECTOR_DB, ENABLE_QDRANT_MULTITENANCY_MODE,
                             ctorCalls + 1, ok)
         IN /\ r.exc # "none"
            /\ outcomes' = outcomes \cup {Outcome(op[t], r.exc, None)}
            /\ imported' = imported \cup r.imports
            /\ ctorCalls' = ctorCalls + r.constructs
            /\ vector_db_client' = [class |-> "Failed", module |-> "builtins",
                                    id |-> ctorCalls + r.constructs]
    /\ selectCalls' = selectCalls + 1
    /\ pc' = [pc EXCEPT ![t] = "idle"]
    /\ op' = [op EXCEPT ![t] = "get"]
    /\ UNCHANGED <<config, tmp, cacheVars, ops>>

\* line 65, right-hand side: Vector.get_vector(VECTOR_DB) raises (the
\* ValueError of line 55, or the exception of a constructor); the exception
\* leaves get_vector_db_client and the proxy method, the store is skipped.
SelectRaises(t) ==
    /\ pc[t] = "select"
    /\ \E ok \in BOOLEAN :
         LET r == get_vector(VECTOR_DB, ENABLE_QDRANT_MULTITENANCY_MODE,
                             ctorCalls + 1, ok)
         IN /\ r.exc # "none"
            /\ outcomes' = outcomes \cup {Outcome(op[t], r.exc, None)}
            /\ imported' = imported \cup r.imports
            /\ ctorCalls' = ctorCalls + r.constructs
    /\ selectCalls' = selectCalls + 1
    /\ pc' = [pc EXCEPT ![t] = "idle"]
    /\ op' = [op EXCEPT ![t] = "get"]
    /\ UNCHANGED <<config, vector_db_client, tmp, cacheVars, ops>>

\* line 65, left-hand side: _vector_db_client = <value>
Store(t) ==
    /\ pc[t] = "store"
    /\ vector_db_client' = tmp[t]
    /\ tmp' = [tmp EXCEPT ![t] = None]
    /\ pc' = [pc EXCEPT ![t] = "return"]
    /\ UNCHANGED <<config, op, imported, ctorCalls, selectCalls, outcomes,
                   cacheVars, ops>>

\* The proxy with the None test left out: getattr(None, name) and None(...)
\* fail inside Python with an AttributeError / TypeError.
VectorDBClientLazy_Unguarded(o, client) ==
    Outcome(o, IF client = None THEN "AttributeError" ELSE "none", client)

\* VectorDBClientLazy.__getattr__ / __call__ after client = get_vector_db_client():
\* the None test, then the forwarding to the client.
VectorDBClientLazy(o, client) ==
    IF client = None
    THEN Outcome(o, "RuntimeError", None)
    ELSE Outcome(o, "none", client)

\* line 66: return _vector_db_client (the global is read again), and, for a
\* proxy access, lines 72-74 / 78-80.
Return(t) ==
    /\ pc[t] = "return"
    /\ outcomes' = outcomes \cup
          {Outcome("get", "none", vector_db_client)} \cup
          (IF op[t] = "get" THEN {} ELSE {VectorDBClientLazy(op[t], vector_db_client)})
    /\ pc' = [pc EXCEPT ![t] = "idle"]
    /\ op' = [op EXCEPT ![t] = "get"]
    /\ UNCHANGED <<config, vector_db_client, tmp, imported, ctorCalls,
                   selectCalls, cacheVars, ops>>

\* ------------------------------------------------- optimized_loading calls
\* The bookkeeping of one call of the module-cache API: the caches, the
\* record of the call and the counts of loader runs that succeeded.
Record(fn, m, s, r) ==
    /\ module_cache' = r.mcache
    /\ attr_cache' = r.acache
    /\ lastCall' = [n |-> lastCall.n + 1, fn |-> fn, module |-> m, symbol |-> s,
                    exc |-> r.exc, val |-> r.val, ran |-> r.ran]
    /\ failures' = IF r.exc = "none" THEN failures ELSE failures \cup {<<m, s>>}
    /\ ops' = ops + 1

\* The count of the imports of m that succeeded, when this call made one.
Imported(m, didImport) ==
    /\ loads' = IF didImport THEN [loads EXCEPT ![m] = @ + 1] ELSE loads
    /\ imports' = IF didImport THEN [imports EXCEPT ![m] = @ + 1] ELSE imports

\* resolve(namespace)
GetModule(m) ==
    /\ ops < MaxCacheOps
    /\ LET r == get_module(m, module_cache, attr_cache, importable)
       IN /\ Record("get_module", m, "", r)
          /\ Imported(m, r.exc = "none" /\ "import_module" \in r.ran)
    /\ UNCHANGED <<backendVars, importable, attrs, attrLoads, clears, lazyVars>>

\* resolve(namespace, symbol)
GetModuleAttr(m, s) ==
    /\ ops < MaxCacheOps
    /\ LET r == get_module_attr(m, s, module_cache, attr_cache, importable, attrs)
       IN /\ Record("get_module_attr", m, s, r)
          /\ Imported(m, r.exc # "ImportError" /\ "import_module" \in r.ran)
          /\ attrLoads' = IF r.exc = "none" /\ "getattr" \in r.ran
                          THEN [attrLoads EXCEPT ![m][s] = @ + 1] ELSE attrLoads
    /\ UNCHANGED <<backendVars, importable, attrs, clears, lazyVars>>

\* invalidate()
ClearModuleCache ==
    /\ ops < MaxCacheOps
    /\ Record("clear_module_cache", "", "", clear_module_cache(module_cache, attr_cache))
    /\ loads' = [m \in Modules |-> 0]
    /\ attrLoads' = [m \in Modules |-> [s \in Symbols |-> 0]]
    /\ clears' = clears + 1
    /\ UNCHANGED <<backendVars, importable, attrs, imports, lazyVars>>

\* The environment: a module becomes importable (installed, or its directory
\* put on sys.path).
Install(m) ==
    /\ ops < MaxCacheOps
    /\ m \notin importable
    /\ importable' = importable \cup {m}
    /\ ops' = ops + 1
    /\ UNCHANGED <<backendVars, attrs, module_cache, attr_cache, lastCall, loads,
                   attrLoads, imports, clears, failures, lazyVars>>

\* The environment: a module attribute is bound or rebound.
SetAttr(m, s, v) ==
    /\ ops < MaxCacheOps
    /\ m \in importable
    /\ attrs[m][s] # v
    /\ attrs' = [attrs EXCEPT ![m][s] = v]
    /\ ops' = ops + 1
    /\ UNCHANGED <<backendVars, importable, module_cache, attr_cache, lastCall,
                   loads, attrLoads, imports, clears, failures, lazyVars>>

\* ------------------------------------------- LazyImport, LazyAttribute
\* LazyImport.__init__ with the import made at once.
LazyImportInit_Eager(m) ==
    /\ lazy_import = NoProxy
    /\ LET r == get_module(m, module_cache, attr_cache, importable)
       IN /\ lazy_import' = [NewProxy(m, "") EXCEPT
                                !.ref = IF r.exc = "none" THEN r.val ELSE "None"]
          /\ module_cache' = r.mcache
    /\ UNCHANGED <<backendVars, importable, attrs, attr_cache, lastCall, loads,
                   attrLoads, imports, clears, failures, lazy_attr, lastAccess,
                   ops>>

\* LazyImport.__init__, lines 77-79: the name is kept, _module is None.
LazyImportInit(m) ==
    /\ lazy_import = NoProxy
    /\ lazy_import' = NewProxy(m, "")
    /\ UNCHANGED <<backendVars, importable, attrs, module_cache, attr_cache,
                   lastCall, loads, attrLoads, imports, clears, failures,
                   lazy_attr, lastAccess, ops>>

\* LazyAttribute.__init__, lines 105-108: the two names are kept, _attr is
\* None.
LazyAttributeInit(m, s) ==
    /\ lazy_attr = NoProxy
    /\ lazy_attr' = NewProxy(m, s)
    /\ UNCHANGED <<backendVars, importable, attrs, module_cache, attr_cache,
                   lastCall, loads, attrLoads, imports, clears, failures,
                   lazy_import, lastAccess, ops>>

\* The proxy after an access, and the record of the access.
Accessed(p, a) ==
    [p EXCEPT !.ref = a.ref,
              !.first = IF @ = NoEntry /\ a.called /\ a.r.exc = "none"
                        THEN a.r.val ELSE @,
              !.failed = @ \/ a.r.exc # "none"]

Access(proxy, a, exc) ==
    [n |-> lastAccess.n + 1, proxy |-> proxy, exc |-> exc, target |-> a.ref,
     called |-> a.called]

\* An access that made no call of the module-cache API leaves its state alone.
NoLookup ==
    /\ ops' = ops + 1
    /\ UNCHANGED <<module_cache, attr_cache, lastCall, loads, attrLoads, imports,
                   failures>>

\* LazyImport.__getattr__ (k a name) and __call__ (k = "call"), lines 81-90.
LazyImportAccess(k) ==
    /\ ops < MaxCacheOps
    /\ lazy_import # NoProxy
    /\ LET m == lazy_import.module_name
           a == LazyImport_resolve(lazy_import, module_cache, attr_cache,
                                   importable)
       IN /\ lazy_import' = Accessed(lazy_import, a)
          /\ lastAccess' = Access("LazyImport", a,
                                  IF a.r.exc # "none" THEN a.r.exc
                                  ELSE ModuleForward(a.ref, k, attrs))
          /\ IF a.called
             THEN /\ Record("get_module", m, "", a.r)
                  /\ Imported(m, a.r.exc = "none" /\ "import_module" \in a.r.ran)
                  /\ UNCHANGED attrLoads
             ELSE NoLookup
    /\ UNCHANGED <<backendVars, importable, attrs, clears, lazy_attr>>

\* LazyAttribute.__call__ (k = "call") and __getattr__ (k a name), lines
\* 110-118.
LazyAttributeAccess(k) ==
    /\ ops < MaxCacheOps
    /\ lazy_attr # NoProxy
    /\ LET m == lazy_attr.module_name
           s == lazy_attr.attr_name
           a == LazyAttribute_resolve(lazy_attr, module_cache, attr_cache,
                                      importable, attrs)
       IN /\ lazy_attr' = Accessed(lazy_attr, a)
          /\ lastAccess' = Access("LazyAttribute", a,
                                  IF a.r.exc # "none" THEN a.r.exc
                                  ELSE AttrForward(a.ref, k))
          /\ IF a.called
             THEN /\ Record("get_module_attr", m, s, a.r)
                  /\ Imported(m, a.r.exc # "ImportError"
                                    /\ "import_module" \in a.r.ran)
                  /\ attrLoads' = IF a.r.exc = "none" /\ "getattr" \in a.r.ran
                                  THEN [attrLoads EXCEPT ![m][s] = @ + 1]
                                  ELSE attrLoads
             ELSE NoLookup
    /\ UNCHANGED <<backendVars, importable, attrs, clears, lazy_import>>

\* ------------------------------------------------------- specifications
BackendNext ==
    \E t \in Threads :
        \/ Call(t)
        \/ Check(t)
        \/ SelectReturns(t)
        \/ SelectRaises(t)
        \/ Store(t)
        \/ Return(t)

CacheNext ==
    \/ \E m \in Modules : GetModule(m)
    \/ \E m \in Modules, s \in Symbols : GetModuleAttr(m, s)
    \/ ClearModuleCache
    \/ \E m \in Modules : Install(m)
    \/ \E m \in Modules, s \in Symbols, v \in AttrValues : SetAttr(m, s, v)

ProxyNext ==
    \/ \E m \in Modules : LazyImportInit(m)
    \/ \E m \in Modules, s \in Symbols : LazyAttributeInit(m, s)
    \/ \E k \in AccessKinds : LazyImportAccess(k)
    \/ \E k \in AccessKinds : LazyAttributeAccess(k)

Next == BackendNext \/ CacheNext \/ ProxyNext

\* The worker process: request threads in the factory, and callers of the
\* module cache.
Spec == Init /\ [][Next]_vars

\* The module cache alone, the factory not in use.
InitCache == Init /\ VECTOR_DB = "disabled" /\ ~ENABLE_QDRANT_MULTITENANCY_MODE

SpecCache == InitCache /\ [][CacheNext]_vars

\* The module cache and the two lazy objects, the factory not in use.
LazyNext == CacheNext \/ ProxyNext

\* At the start one module is not installed; the other is any module.
InitLazy == InitCache /\ "other_module" \notin importable

SpecLazy == InitLazy /\ [][LazyNext]_vars

\* The factory alone, the module cache not in use.
InitBackend == Init /\ importable = {}

SpecBackend == InitBackend /\ [][BackendNext]_vars

\* The factory alone, its calls made one after the other: a call begins and
\* proceeds only while no other thread is inside one.
SeqNext ==
    \E t \in Threads :
        /\ \A u \in Threads \ {t} : pc[u] = "idle"
        /\ \/ Call(t)
           \/ Check(t)
           \/ SelectReturns(t)
           \/ SelectRaises(t)
           \/ Store(t)
           \/ Return(t)

SpecSeq == InitBackend /\ [][SeqNext]_vars

\* The callers of one worker: request threads in the factory and calls of
\* get_module, get_module_attr and clear_module_cache, in an environment
\* where one module exists, with one of the two attributes.
InitCallers ==
    /\ Init
    /\ importable = {"heavy_module"}
    /\ attrs["heavy_module"] = [s \in Symbols |->
                                  IF s = "heavy_function" THEN "obj" ELSE Absent]

CallersNext ==
    \/ BackendNext
    \/ \E m \in Modules : GetModule(m)
    \/ \E m \in Modules, s \in Symbols : GetModuleAttr(m, s)
    \/ ClearModuleCache

SpecCallers == InitCallers /\ [][CallersNext]_vars

\* ------------------------------------------------------------ properties
\* The identifiers with a backend class behind them.
Supported == VectorType \ {"disabled"}

\* Some constructor call of this process raised.
ConstructionFailed == \E o \in outcomes : o.exc = "ConstructionError"

\* The values get_vector_db_client has returned so far.
Returned == {o.val : o \in {x \in outcomes : x.op = "get" /\ x.exc = "none"}}

AllIdle == \A t \in Threads : pc[t] = "idle"

\* C1: with a supported identifier whose constructor does not raise, calls of
\* get_vector_db_client made one after the other (directly or through the
\* proxy) invoke the constructor once in all, and every call returns that one
\* instance, which is the cached one.
C1_SequentialGetConstructsOnce ==
    (VECTOR_DB \in Supported /\ ~ConstructionFailed) =>
        /\ ctorCalls <= 1
        /\ Returned \subseteq {vector_db_client}
        /\ None \notin Returned
        /\ (Returned # {} => ctorCalls = 1)

\* C1 witness: three calls made one after the other have all returned, the
\* one instance constructed is the one they returned.
C1_Witness ==
    /\ VECTOR_DB \in Supported
    /\ ~ConstructionFailed
    /\ ops = 3
    /\ AllIdle
    /\ ctorCalls = 1
    /\ Returned = {vector_db_client}
    /\ \E o \in outcomes : o.op = "getattr" /\ o.val = vector_db_client

\* C2: when several threads make the first access together, the constructor
\* runs once and every caller gets the instance of that one construction.
C2_ConcurrentFirstAccessConstructsOnce ==
    (VECTOR_DB \in Supported /\ ~ConstructionFailed) =>
        /\ ctorCalls <= 1
        /\ Cardinality(Returned) <= 1

\* C3: with Disabled configured, Vector.get_vector is called at most once in
\* the process, however many accesses follow the first.
C3_DisabledSelectAtMostOnce ==
    VECTOR_DB = "disabled" => selectCalls <= 1

ProxyOutcomes == {o \in outcomes : o.op \in {"getattr", "call"}}

\* C4: with Disabled configured, every member access and every call through
\* VECTOR_DB_CLIENT ends in the RuntimeError of the proxy, nothing is
\* forwarded, and no backend module is imported or constructed.
C4_DisabledProxyAlwaysRaises ==
    VECTOR_DB = "disabled" =>
        /\ \A o \in ProxyOutcomes : o.exc = "RuntimeError" /\ o.val = None
        /\ ctorCalls = 0
        /\ imported = {}
        /\ vector_db_client = None

\* C4 witness: with Disabled configured a member access and a call through
\* the proxy have both ended, after a direct get().
C4_Witness ==
    /\ VECTOR_DB = "disabled"
    /\ \E o \in outcomes : o.op = "getattr" /\ o.exc = "RuntimeError"
    /\ \E o \in outcomes : o.op = "call" /\ o.exc = "RuntimeError"
    /\ ops = 3
    /\ AllIdle

\* C5: with an identifier outside the enumeration every call ends in the
\* ValueError of get_vector, no backend module is imported or constructed,
\* and the global stays None, with no value waiting to be stored.
C5_UnsupportedRaisesAndCachesNothing ==
    VECTOR_DB \notin VectorType =>
        /\ \A o \in outcomes : o.exc = "ValueError" /\ o.val = None
        /\ ctorCalls = 0
        /\ imported = {}
        /\ vector_db_client = None
        /\ \A t \in Threads : tmp[t] = None /\ pc[t] \notin {"store", "return"}

\* C5 witness: with "nonexistent" configured, get_vector has been called
\* twice and a direct get() and a proxy access have ended in ValueError.
C5_Witness ==
    /\ VECTOR_DB = "nonexistent"
    /\ selectCalls = 2
    /\ \E o \in outcomes : o.op = "get" /\ o.exc = "ValueError"
    /\ \E o \in outcomes : o.op = "getattr" /\ o.exc = "ValueError"

\* The module that belongs to an identifier alone: the one its own backend
\* class lives in; none for Disabled and for an unsupported identifier.
ExclusiveModules(id, multitenancy) ==
    IF id = "qdrant"
    THEN {IF multitenancy THEN "dbs.qdrant_multitenancy" ELSE "dbs.qdrant"}
    ELSE IF id \in Supported THEN {"dbs." \o id} ELSE {}

\* C6: the variant modules imported in a process are among the modules of
\* the configured identifier; none is imported with Disabled.
C6_OnlySelectedVariantImported ==
    imported \subseteq ExclusiveModules(VECTOR_DB, ENABLE_QDRANT_MULTITENANCY_MODE)

\* C6 witness: Qdrant with the multitenancy flag on has been constructed and
\* stored, and the multitenancy module alone was imported.
C6_Witness ==
    /\ VECTOR_DB = "qdrant"
    /\ ENABLE_QDRANT_MULTITENANCY_MODE
    /\ vector_db_client # None
    /\ imported = {"dbs.qdrant_multitenancy"}

\* A step that is a call of get_module, get_module_attr or clear_module_cache.
CallStep == lastCall'.n # lastCall.n

CallOf(fn, m, s) ==
    /\ CallStep
    /\ lastCall'.fn = fn
    /\ lastCall'.module = m
    /\ lastCall'.symbol = s

CachesUnchanged == module_cache' = module_cache /\ attr_cache' = attr_cache

\* C7: a call of get_module / get_module_attr whose key is in the cache
\* returns the cached value, runs no loader and leaves the caches as they
\* are, whatever has become of the module since; so between two clears the
\* loader of a key succeeds at most once.
C7_ResolveIdempotent ==
    [][ /\ \A m \in Modules :
              (CallOf("get_module", m, "") /\ m \in module_cache) =>
                  /\ lastCall'.exc = "none"
                  /\ lastCall'.val = m
                  /\ lastCall'.ran = {}
                  /\ CachesUnchanged
        /\ \A m \in Modules, s \in Symbols :
              (CallOf("get_module_attr", m, s) /\ attr_cache[m][s] # NoEntry) =>
                  /\ lastCall'.exc = "none"
                  /\ lastCall'.val = attr_cache[m][s]
                  /\ lastCall'.ran = {}
                  /\ CachesUnchanged
        /\ \A m \in Modules : loads'[m] <= 1
        /\ \A m \in Modules, s \in Symbols : attrLoads'[m][s] <= 1
      ]_vars

\* C7 witness: an attribute was resolved, then rebound in the module, then
\* resolved again with no clear in between: the second call ran no loader
\* and returned the value cached by the first, not the new binding.
C7_Witness ==
    /\ lastCall.n = 2
    /\ clears = 0
    /\ lastCall.fn = "get_module_attr"
    /\ lastCall.exc = "none"
    /\ lastCall.ran = {}
    /\ lastCall.val = attr_cache[lastCall.module][lastCall.symbol]
    /\ lastCall.val # attrs[lastCall.module][lastCall.symbol]
    /\ attrLoads[lastCall.module][lastCall.symbol] = 1

\* C8: clear_module_cache leaves both caches empty, and after a clear a call
\* of get_module / get_module_attr for a key whose loader has not succeeded
\* since runs the loader again.
C8_InvalidateClearsAndReloads ==
    [][ /\ CallOf("clear_module_cache", "", "") =>
              module_cache' = {} /\ attr_cache' = EmptyAttrCache
        /\ \A m \in Modules :
              (CallOf("get_module", m, "") /\ clears >= 1 /\ loads[m] = 0) =>
                  "import_module" \in lastCall'.ran
        /\ \A m \in Modules, s \in Symbols :
              (CallOf("get_module_attr", m, s) /\ clears >= 1
                 /\ attrLoads[m][s] = 0) =>
                  "getattr" \in lastCall'.ran
      ]_vars

\* C8 witness: a module was imported through the cache, the cache was
\* cleared once, and a get_module_attr call after the clear has imported
\* the module a second time and read the attribute.
C8_Witness ==
    /\ clears = 1
    /\ lastCall.fn = "get_module_attr"
    /\ lastCall.exc = "none"
    /\ lastCall.ran = {"import_module", "getattr"}
    /\ imports[lastCall.module] = 2

\* C9: get_module raises ImportError exactly for a module that cannot be
\* imported; get_module_attr raises ImportError exactly for such a module and
\* AttributeError exactly for an importable module without the attribute.
C9_ErrorKindsDistinct ==
    [][ /\ \A m \in Modules :
              CallOf("get_module", m, "") =>
                  /\ lastCall'.exc \in {"none", "ImportError"}
                  /\ lastCall'.exc = "ImportError" <=> m \notin importable
        /\ \A m \in Modules, s \in Symbols :
              CallOf("get_module_attr", m, s) =>
                  /\ lastCall'.exc \in {"none", "ImportError", "AttributeError"}
                  /\ lastCall'.exc = "ImportError" <=> m \notin importable
                  /\ lastCall'.exc = "AttributeError" <=>
                         (m \in importable /\ attrs[m][s] = Absent)
      ]_vars

\* C9 witness: get_module_attr has raised AttributeError for a module it
\* found and cached, while the other module is not importable.
C9_Witness ==
    /\ lastCall.fn = "get_module_attr"
    /\ lastCall.exc = "AttributeError"
    /\ lastCall.module \in module_cache
    /\ \E m \in Modules : m \notin importable

\* C10: once the global holds a client, no step of a caller (a step of
\* get_vector_db_client or of the proxy, a module-cache call) changes it.
C10_SetSlotNeverChanges ==
    [][vector_db_client # None => vector_db_client' = vector_db_client]_vars

\* C11: the administrative hook of the code, clear_module_cache, returns the
\* global of the factory to None, so that the next get() calls get_vector
\* again.
C11_ResetReturnsSlotToUnset ==
    [][CallOf("clear_module_cache", "", "") => vector_db_client' = None]_vars

\* The backend class an identifier stands for.
ExpectedClass(id) ==
    CASE id = "milvus" -> "MilvusClient"
      [] id = "qdrant" -> "QdrantClient"
      [] id = "pinecone" -> "PineconeClient"
      [] id = "opensearch" -> "OpenSearchClient"
      [] id = "pgvector" -> "PgvectorClient"
      [] id = "elasticsearch" -> "ElasticsearchClient"
      [] id = "chroma" -> "ChromaClient"
      [] OTHER -> "None"

\* A value is an instance of the backend of the configured identifier.
InstanceOfConfigured(v) ==
    /\ v.class = ExpectedClass(VECTOR_DB)
    /\ v.module \in ExclusiveModules(VECTOR_DB, ENABLE_QDRANT_MULTITENANCY_MODE)
    /\ v.id \in 1..ctorCalls

\* C12: with calls made one after the other and a supported identifier, a
\* constructor that raises ends the call that ran it in that exception and
\* leaves the global None; every call that finds the global None runs the
\* constructor afresh, after each failure; the global is None or a whole
\* instance, the one of the last constructor call.
C12_FailedConstructionLeavesUnsetAndRetries ==
    VECTOR_DB \in Supported =>
        /\ (AllIdle /\ vector_db_client = None) =>
               /\ ctorCalls = ops
               /\ \A o \in outcomes : o.exc = "ConstructionError" /\ o.val = None
        /\ vector_db_client # None =>
               /\ InstanceOfConfigured(vector_db_client)
               /\ vector_db_client.id = ctorCalls
        /\ \A t \in Threads : pc[t] = "select" => vector_db_client = None

\* C12 witness: the constructor raised in the first two calls, each ended in
\* the exception, and the third call constructed and stored the client.
C12_Witness ==
    /\ VECTOR_DB \in Supported
    /\ AllIdle
    /\ ops = 3
    /\ ctorCalls = 3
    /\ ConstructionFailed
    /\ vector_db_client # None
    /\ vector_db_client.id = 3

\* C13: before the first call of get_vector_db_client or of the proxy the
\* global is None, and get_vector has not been called, no variant module
\* imported, no constructor run; get_vector is called no more often than
\* calls have begun.
C13_NothingBuiltBeforeFirstUse ==
    /\ ops = 0 =>
          /\ vector_db_client = None
          /\ selectCalls = 0
          /\ ctorCalls = 0
          /\ imported = {}
    /\ selectCalls <= ops
    /\ selectCalls = 0 => (imported = {} /\ ctorCalls = 0 /\ vector_db_client = None)

\* C13 witness: the first call has begun through the proxy and stands at the
\* test of the global of a supported identifier; nothing has been imported
\* or constructed yet.
C13_Witness ==
    /\ VECTOR_DB \in Supported
    /\ ops = 1
    /\ \E t \in Threads : pc[t] = "check" /\ op[t] = "getattr"
    /\ selectCalls = 0
    /\ imported = {}

AccessOf(proxy) == lastAccess'.n # lastAccess.n /\ lastAccess'.proxy = proxy

\* C15: the step that constructs a LazyImport or a LazyAttribute calls
\* neither get_module nor get_module_attr, imports nothing and leaves both
\* caches as they are; the object starts with its local reference None, and
\* the reference changes only in an access through that object.
C15_ConstructionResolvesNothing ==
    [][ /\ ((lazy_import = NoProxy /\ lazy_import' # NoProxy)
              \/ (lazy_attr = NoProxy /\ lazy_attr' # NoProxy)) =>
               /\ CachesUnchanged
               /\ lastCall' = lastCall
               /\ imports' = imports
               /\ loads' = loads
               /\ attrLoads' = attrLoads
        /\ (lazy_import = NoProxy /\ lazy_import' # NoProxy) =>
               lazy_import'.ref = "None"
        /\ (lazy_attr = NoProxy /\ lazy_attr' # NoProxy) =>
               lazy_attr'.ref = "None"
        /\ lazy_import'.ref # lazy_import.ref => AccessOf("LazyImport")
        /\ lazy_attr'.ref # lazy_attr.ref => AccessOf("LazyAttribute")
      ]_vars

\* C15 witness: both objects are constructed, over a module that can be
\* imported and an attribute it has, and nothing has been imported or
\* cached, no access made.
C15_Witness ==
    /\ lazy_import # NoProxy
    /\ lazy_attr # NoProxy
    /\ lazy_import.module_name \in importable
    /\ attrs[lazy_attr.module_name][lazy_attr.attr_name] # Absent
    /\ lastAccess.n = 0
    /\ lastCall.n = 0
    /\ module_cache = {}
    /\ attr_cache = EmptyAttrCache

\* C16: once an access through a LazyImport / LazyAttribute object has
\* resolved its target, whatever the value (None included), the object holds
\* that value and no later access through it calls get_module or
\* get_module_attr.
C16_ResolvedProxyNeverLooksUpAgain ==
    [][ /\ (AccessOf("LazyImport") /\ lazy_import.first # NoEntry) =>
               /\ lastCall' = lastCall
               /\ lazy_import'.ref = lazy_import.first
        /\ (AccessOf("LazyAttribute") /\ lazy_attr.first # NoEntry) =>
               /\ lastCall' = lastCall
               /\ lazy_attr'.ref = lazy_attr.first
      ]_vars

\* C17: clear_module_cache leaves the two objects as they are, and after a
\* clear an access through an object that had resolved its target goes to
\* that same target and runs no loader.
C17_ResolvedProxySurvivesClear ==
    [][ /\ CallOf("clear_module_cache", "", "") =>
               lazy_import' = lazy_import /\ lazy_attr' = lazy_attr
        /\ (AccessOf("LazyImport") /\ lazy_import.first # NoEntry /\ clears >= 1) =>
               /\ lastAccess'.target = lazy_import.first
               /\ CallStep => lastCall'.ran = {}
        /\ (AccessOf("LazyAttribute") /\ lazy_attr.first # NoEntry /\ clears >= 1) =>
               /\ lastAccess'.target = lazy_attr.first
               /\ CallStep => lastCall'.ran = {}
      ]_vars

\* C18: an access through an object whose local reference is None calls
\* get_module / get_module_attr for the key of the object; when that call
\* raises, the access ends in the same exception and the reference stays
\* None; when the module can be imported (and has the attribute) the call
\* returns and the reference is set to what it returned, whether or not an
\* earlier access failed.
C18_FailedAccessLeavesProxyUsable ==
    [][ /\ (AccessOf("LazyImport") /\ lazy_import.ref = "None") =>
               /\ CallOf("get_module", lazy_import.module_name, "")
               /\ lastCall'.exc # "none" =>
                      /\ lastAccess'.exc = lastCall'.exc
                      /\ lastCall'.exc = "ImportError"
                      /\ lazy_import'.ref = "None"
               /\ lazy_import.module_name \in importable =>
                      /\ lastCall'.exc = "none"
                      /\ lazy_import'.ref = lazy_import.module_name
        /\ (AccessOf("LazyAttribute") /\ lazy_attr.ref = "None") =>
               /\ CallOf("get_module_attr", lazy_attr.module_name,
                         lazy_attr.attr_name)
               /\ lastCall'.exc # "none" =>
                      /\ lastAccess'.exc = lastCall'.exc
                      /\ lastCall'.exc \in {"ImportError", "AttributeError"}
                      /\ lazy_attr'.ref = "None"
               /\ (lazy_attr.module_name \in importable
                     /\ attrs[lazy_attr.module_name][lazy_attr.attr_name] # Absent) =>
                      /\ lastCall'.exc = "none"
                      /\ lazy_attr'.ref = lastCall'.val
        /\ lazy_import'.module_name \in {lazy_import.module_name} \cup
               (IF lazy_import = NoProxy THEN Modules ELSE {})
      ]_vars

\* C18 witness: an access through the LazyImport object failed with the
\* ImportError of get_module, the module was installed, and the next access
\* through the same object imported it and set the reference.
C18_Witness ==
    /\ lazy_import.failed
    /\ lazy_import.ref = lazy_import.module_name
    /\ lastAccess.proxy = "LazyImport"
    /\ lastAccess.called
    /\ lastAccess.n = 2
    /\ lastCall.ran = {"import_module"}
    /\ <<lazy_import.module_name, "">> \in failures

\* C19: a call of get_module / get_module_attr that raises leaves no entry
\* under its key; a call for a key with no entry runs the loader, and
\* returns the module / the attribute when the module can be imported and
\* has the attribute, whatever failed before.
C19_FailureNotCached ==
    [][ /\ \A m \in Modules :
              CallOf("get_module", m, "") =>
                  /\ lastCall'.exc # "none" =>
                         /\ m \notin module_cache'
                         /\ CachesUnchanged
                  /\ m \notin module_cache =>
                         /\ "import_module" \in lastCall'.ran
                         /\ m \in importable =>
                                lastCall'.exc = "none" /\ lastCall'.val = m
        /\ \A m \in Modules, s \in Symbols :
              CallOf("get_module_attr", m, s) =>
                  /\ lastCall'.exc # "none" =>
                         /\ attr_cache'[m][s] = NoEntry
                         /\ attr_cache' = attr_cache
                  /\ attr_cache[m][s] = NoEntry =>
                         /\ "getattr" \in lastCall'.ran
                         /\ (m \in importable /\ attrs[m][s] # Absent) =>
                                /\ lastCall'.exc = "none"
                                /\ lastCall'.val = attrs[m][s]
      ]_vars

\* C19 witness: get_module_attr raised for a key, the attribute was then
\* bound (or the module installed), and a later call for the same key ran
\* the loader and returned the value.
C19_Witness ==
    /\ lastCall.fn = "get_module_attr"
    /\ <<lastCall.module, lastCall.symbol>> \in failures
    /\ lastCall.exc = "none"
    /\ "getattr" \in lastCall.ran
    /\ lastCall.val = attrs[lastCall.module][lastCall.symbol]

\* C20: a call of get_module_attr that finds the module leaves the module
\* in the cache of get_module, whether or not the attribute exists; with the
\* module in that cache neither function imports it again, so between two
\* clears a module is imported at most once; a missing attribute adds no
\* entry to the cache of get_module_attr.
C20_AttrResolvesThroughModuleCache ==
    [][ /\ \A m \in Modules, s \in Symbols :
              CallOf("get_module_attr", m, s) =>
                  /\ lastCall'.exc # "ImportError" => m \in module_cache'
                  /\ lastCall'.exc = "AttributeError" =>
                         /\ attr_cache' = attr_cache
                         /\ attr_cache'[m][s] = NoEntry
                  /\ m \in module_cache => "import_module" \notin lastCall'.ran
                  /\ loads'[m] <= 1
        /\ \A m \in Modules :
              (CallOf("get_module", m, "") /\ m \in module_cache) =>
                  "import_module" \notin lastCall'.ran /\ loads'[m] = loads[m]
      ]_vars

\* C20 witness: after a module was imported through get_module and one of
\* its attributes resolved, get_module_attr for an attribute the module
\* lacks raised AttributeError without a second import; the module entry
\* is cached, the missing attribute has no entry.
C20_Witness ==
    /\ lastCall.n = 3
    /\ clears = 0
    /\ lastCall.fn = "get_module_attr"
    /\ lastCall.exc = "AttributeError"
    /\ lastCall.ran = {"getattr"}
    /\ lastCall.module \in module_cache
    /\ loads[lastCall.module] = 1
    /\ attr_cache[lastCall.module][lastCall.symbol] = NoEntry
    /\ \E s \in Symbols : attr_cache[lastCall.module][s] # NoEntry

====
